---- MODULE Spec2Model ----
(***************************************************************************)
(* Two tutorial notebooks against a managed ML platform:                   *)
(*   - sagemaker-serverless-demo.ipynb: create model / endpoint config /   *)
(*     endpoint, poll the endpoint status, invoke, tear down;              *)
(*   - the Abalone pipeline notebook: upload data, define the pipeline     *)
(*     (process -> train -> eval -> condition -> register branch | fail),  *)
(*     upsert it; the orchestrator then executes the definition.           *)
(* One behaviour runs one notebook (nb), or the two scripts the pipeline    *)
(* notebook writes for its processing jobs (nb = "jobs").  The platform is *)
(* the environment: its resources are state, its faults nondeterministic.  *)
(***************************************************************************)
EXTENDS Integers, Sequences, FiniteSets, TLC

VARIABLES
    nb,              \* which notebook this run executes
    pc,              \* position of the notebook's control flow
    raised,          \* the call whose exception stopped the run, or "none"
    log,             \* history: the service calls issued, in order
    matches,         \* model_matches / endpoint_config_matches / endpoint_matches
    status,          \* the notebook variable `status` (last observed EndpointStatus)
    slept,           \* seconds of the last time.sleep
    models,          \* platform: names of the existing models
    endpointConfigs, \* platform: names of the existing endpoint configurations
    endpoints,       \* platform: endpoint name -> EndpointStatus
    atStart,         \* history: the platform's resources when the run began
    test_df,         \* the notebook variable `test_df` (<<>> while unset)
    payload,         \* the notebook variable `payload` (<<>> while unset)
    prediction_df,   \* the notebook variable `prediction_df` (<<>> while unset)
    upserted,        \* platform: the AbalonePipeline definition is stored
    execStatus,      \* pipeline execution: None | Executing | Succeeded | Failed
    params,          \* pipeline execution: parameter values of the execution
    stepStatus,      \* pipeline execution: step name -> step status
    report,          \* evaluation.json written by AbaloneEval (<<>> while absent)
    condOutcome,     \* outcome of AbaloneMSECond
    errorMessage,    \* failure reason of the execution (<<>> while none)
    modelPackages,   \* platform: model packages registered by the execution
    createdModel,    \* platform: the execution created a model
    transformRan,    \* platform: the execution started a batch transform job
    overrides,       \* pipeline execution: the parameter values given at its start
    artifacts,       \* pipeline execution: <<step, output>> -> the splits it derives from
    consumed,        \* pipeline execution: step name -> the outputs the step read
    evalMse,         \* the `mse` evaluation.py computed (<<>> while not computed)
    condCompared,    \* the operands AbaloneMSECond compared (<<>> while not evaluated)
    dataset,         \* job scripts: abalone-dataset.csv, the input of preprocessing.py
    X,               \* job scripts: the array X of preprocessing.py (<<>> while unset)
    files,           \* job scripts: file name -> the CSV lines preprocessing.py wrote
    y_test,          \* job scripts: y_test of evaluation.py (<<>> while unset)
    X_test           \* job scripts: the rows evaluation.py hands to the model

sessionVars == <<atStart, test_df, payload, prediction_df>>
serverlessVars == <<matches, status, slept, models, endpointConfigs, endpoints,
                    sessionVars>>
flowVars == <<overrides, artifacts, consumed, evalMse, condCompared>>
executionVars == <<upserted, execStatus, params, stepStatus, report, condOutcome,
                   errorMessage, modelPackages, createdModel, transformRan, flowVars>>
jobVars == <<dataset, X, files, y_test, X_test>>
pipelineVars == <<executionVars, jobVars>>
vars == <<nb, pc, raised, log, serverlessVars, pipelineVars>>

(***************************************************************************)
(* Bounds of the model.                                                    *)
(***************************************************************************)
\* describe_endpoint calls kept in the history (the loop itself is unbounded)
MaxPolls == 3
\* the MSE values evaluation.py may report are 0..MaxMse
MaxMse == 8
\* test.csv of the serverless notebook holds MaxTestRows claims
MaxTestRows == 6
\* abalone-dataset.csv holds 1..MaxRows rows
MaxRows == 5

\* .iloc[:5] and result[:5]: the rows sent and the predictions kept
NumSampleRows == 5

(***************************************************************************)
(* Serverless notebook: names.  A name is a sequence of tokens, so that    *)
(* NameContains is a real substring test.                                  *)
(***************************************************************************)
model_name == <<"fraud-detect-xgb">>
endpoint_config_name == model_name \o <<"-serverless-ep", "config">>
endpoint_name == model_name \o <<"-serverless-ep">>

\* names a resource of each kind may already carry when the notebook starts
ModelNames == {model_name, model_name \o <<"-v2">>, <<"churn-xgb">>}
EndpointConfigNames == {endpoint_config_name, endpoint_config_name \o <<"-v2">>,
                        <<"churn-epconfig">>}
EndpointNames == {endpoint_name, endpoint_name \o <<"-v2">>, <<"churn-ep">>}

EndpointStatuses == {"Creating", "InService", "Failed", "Updating", "Deleting"}

\* time.sleep(60)
PollInterval == 60

\* NameContains: `sub` occurs in `name` as a contiguous run
Contains(name, sub) ==
    \E i \in 0..(Len(name) - Len(sub)) : SubSeq(name, i + 1, i + Len(sub)) = sub

\* list_models / list_endpoint_configs / list_endpoints (NameContains=sub)
ListNameContains(existing, sub) == {n \in existing : Contains(n, sub)}

\* `if not model_matches:` (an empty list is falsy)
NoMatchAlways(found) == TRUE
NoMatchInverted(found) == found # {}
NoMatch(found) == found = {}

\* `while status == "Creating":`
WhileConditionTypo(st) == st = "creating"
WhileConditionUntilInService(st) == st # "InService"
WhileCondition(st) == st = "Creating"

(***************************************************************************)
(* Serverless notebook: control flow.  Code cells run in document order.   *)
(***************************************************************************)
CellOrderTeardownFirst ==
    <<"model", "endpoint_config", "endpoint", "teardown", "prose", "invoke">>
CellOrder == <<"model", "endpoint_config", "endpoint", "invoke", "prose", "teardown">>

\* the teardown cell's calls, top to bottom
TeardownOrderEndpointFirst ==
    <<"delete_endpoint", "delete_endpoint_config", "delete_model">>
TeardownOrder == <<"delete_model", "delete_endpoint_config", "delete_endpoint">>

EntryPc(cell) ==
    CASE cell = "model" -> "list_models"
      [] cell = "endpoint_config" -> "list_endpoint_configs"
      [] cell = "endpoint" -> "list_endpoints"
      [] cell = "invoke" -> "read_csv"
      [] cell = "prose" -> "prose_cell"
      [] cell = "teardown" -> TeardownOrder[1]

\* the pc reached when `cell` runs to its end
CellExit(cell) ==
    LET i == CHOOSE k \in 1..Len(CellOrder) : CellOrder[k] = cell
    IN IF i = Len(CellOrder) THEN "done" ELSE EntryPc(CellOrder[i + 1])

\* the pc reached when the teardown call c returns
AfterDelete(c) ==
    LET i == CHOOSE k \in 1..Len(TeardownOrder) : TeardownOrder[k] = c
    IN IF i = Len(TeardownOrder) THEN CellExit("teardown") ELSE TeardownOrder[i + 1]

Count(s, c) == Cardinality({i \in 1..Len(s) : s[i] = c})
Range(s) == {s[i] : i \in 1..Len(s)}

\* history of the calls issued; describe_endpoint is kept MaxPolls times
Record(c) ==
    IF c = "describe_endpoint" /\ Count(log, c) >= MaxPolls
    THEN log
    ELSE Append(log, c)

\* an uncaught exception: the kernel stops the run at the raising call
RaiseAndRetry(c) == raised' = c /\ pc' = pc
Raise(c) == raised' = c /\ pc' = "halted"

(***************************************************************************)
(* Serverless notebook: one action per service call or statement.  A call  *)
(* raises on a service fault, or when the platform rejects it.             *)
(***************************************************************************)
Serverless == nb = "serverless"

\* model_matches = sm_client.list_models(NameContains=model_name)["Models"]
ListModels ==
    /\ Serverless /\ pc = "list_models"
    /\ log' = Record("list_models")
    /\ \E fault \in BOOLEAN :
        IF fault
        THEN Raise("list_models") /\ UNCHANGED matches
        ELSE LET found == ListNameContains(models, model_name)
             IN /\ matches' = ("model" :> found) @@ matches
                /\ pc' = IF NoMatch(found) THEN "create_model" ELSE CellExit("model")
                /\ UNCHANGED raised
    /\ UNCHANGED <<nb, status, slept, models, endpointConfigs, endpoints, sessionVars,
                   pipelineVars>>

\* model = sm_client.create_model(ModelName=model_name, ...)
CreateModel ==
    /\ Serverless /\ pc = "create_model"
    /\ log' = Record("create_model")
    /\ \E fault \in BOOLEAN :
        IF fault \/ model_name \in models
        THEN Raise("create_model") /\ UNCHANGED models
        ELSE /\ models' = models \cup {model_name}
             /\ pc' = CellExit("model")
             /\ UNCHANGED raised
    /\ UNCHANGED <<nb, matches, status, slept, endpointConfigs, endpoints, sessionVars,
                   pipelineVars>>

\* endpoint_config_matches = sm_client.list_endpoint_configs(NameContains=...)
ListEndpointConfigs ==
    /\ Serverless /\ pc = "list_endpoint_configs"
    /\ log' = Record("list_endpoint_configs")
    /\ \E fault \in BOOLEAN :
        IF fault
        THEN Raise("list_endpoint_configs") /\ UNCHANGED matches
        ELSE LET found == ListNameContains(endpointConfigs, endpoint_config_name)
             IN /\ matches' = ("endpoint_config" :> found) @@ matches
                /\ pc' = IF NoMatch(found) THEN "create_endpoint_config"
                                           ELSE CellExit("endpoint_config")
                /\ UNCHANGED raised
    /\ UNCHANGED <<nb, status, slept, models, endpointConfigs, endpoints, sessionVars,
                   pipelineVars>>

\* sm_client.create_endpoint_config(...): the variant's model must exist
CreateEndpointConfig ==
    /\ Serverless /\ pc = "create_endpoint_config"
    /\ log' = Record("create_endpoint_config")
    /\ \E fault \in BOOLEAN :
        IF fault \/ endpoint_config_name \in endpointConfigs \/ model_name \notin models
        THEN Raise("create_endpoint_config") /\ UNCHANGED endpointConfigs
        ELSE /\ endpointConfigs' = endpointConfigs \cup {endpoint_config_name}
             /\ pc' = CellExit("endpoint_config")
             /\ UNCHANGED raised
    /\ UNCHANGED <<nb, matches, status, slept, models, endpoints, sessionVars,
                   pipelineVars>>

\* endpoint_matches = sm_client.list_endpoints(NameContains=endpoint_name)
ListEndpoints ==
    /\ Serverless /\ pc = "list_endpoints"
    /\ log' = Record("list_endpoints")
    /\ \E fault \in BOOLEAN :
        IF fault
        THEN Raise("list_endpoints") /\ UNCHANGED matches
        ELSE LET found == ListNameContains(DOMAIN endpoints, endpoint_name)
             IN /\ matches' = ("endpoint" :> found) @@ matches
                /\ pc' = IF NoMatch(found) THEN "create_endpoint"
                                           ELSE "describe_endpoint"
                /\ UNCHANGED raised
    /\ UNCHANGED <<nb, status, slept, models, endpointConfigs, endpoints, sessionVars,
                   pipelineVars>>

\* sm_client.create_endpoint(...): the endpoint starts in status Creating
CreateEndpoint ==
    /\ Serverless /\ pc = "create_endpoint"
    /\ log' = Record("create_endpoint")
    /\ \E fault \in BOOLEAN :
        IF fault \/ endpoint_name \in DOMAIN endpoints
                 \/ endpoint_config_name \notin endpointConfigs
        THEN Raise("create_endpoint") /\ UNCHANGED endpoints
        ELSE /\ endpoints' = (endpoint_name :> "Creating") @@ endpoints
             /\ pc' = "describe_endpoint"
             /\ UNCHANGED raised
    /\ UNCHANGED <<nb, matches, status, slept, models, endpointConfigs, sessionVars,
                   pipelineVars>>

\* resp = sm_client.describe_endpoint(...); status = resp["EndpointStatus"]
\* (before the loop, and again at the end of every iteration)
DescribeEndpoint ==
    /\ Serverless /\ pc \in {"describe_endpoint", "describe_endpoint_loop"}
    /\ log' = Record("describe_endpoint")
    /\ \E fault \in BOOLEAN :
        IF fault \/ endpoint_name \notin DOMAIN endpoints
        THEN Raise("describe_endpoint") /\ UNCHANGED status
        ELSE /\ status' = endpoints[endpoint_name]
             /\ pc' = "while"
             /\ UNCHANGED raised
    /\ UNCHANGED <<nb, matches, slept, models, endpointConfigs, endpoints, sessionVars,
                   pipelineVars>>

\* while status == "Creating":   (and the print after the loop)
WhileTest ==
    /\ Serverless /\ pc = "while"
    /\ pc' = IF WhileCondition(status) THEN "sleep" ELSE CellExit("endpoint")
    /\ UNCHANGED <<nb, raised, log, serverlessVars, pipelineVars>>

\* print(...); time.sleep(60)
Sleep ==
    /\ Serverless /\ pc = "sleep"
    /\ slept' = PollInterval
    /\ pc' = "describe_endpoint_loop"
    /\ UNCHANGED <<nb, raised, log, matches, status, models, endpointConfigs,
                   endpoints, sessionVars,
                   pipelineVars>>

(***************************************************************************)
(* The invocation cell's data.  A CSV file is a sequence of lines, a line  *)
(* a sequence of cell texts; a data frame is its column names and its rows *)
(* (the index is the row's position).                                      *)
(***************************************************************************)
\* test.csv at test_data_uri: a header line, then one line per claim; the
\* label column "fraud" comes with two feature columns
TestColumns == <<"fraud", "vehicle_claim", "customer_age">>
TestRow(i) == <<i % 2, 10 + i, 20 + i>>
CellValues == 0..(20 + MaxTestRows)
TestFile(n) == <<TestColumns>> \o [i \in 1..n |-> [k \in 1..3 |-> ToString(TestRow(i)[k])]]

\* the number a cell text stands for
ParseCell(txt) == CHOOSE v \in CellValues : ToString(v) = txt

\* pd.read_csv(uri): the first line names the columns
ReadCsvFile(file) ==
    [columns |-> Head(file),
     rows |-> [i \in 1..(Len(file) - 1) |->
                  [k \in 1..Len(file[i + 1]) |-> ParseCell(file[i + 1][k])]]]

\* the sequence f with its elements worked out once (a materialised array)
Array(f) == f \o <<>>

Without(row, k) == SubSeq(row, 1, k - 1) \o SubSeq(row, k + 1, Len(row))

\* df.drop([col], axis=1)
Drop(df, col) ==
    LET k == CHOOSE j \in 1..Len(df.columns) : df.columns[j] = col
    IN [columns |-> Without(df.columns, k),
        rows |-> [i \in 1..Len(df.rows) |-> Without(df.rows[i], k)]]

\* df.iloc[:k]
Iloc(df, k) ==
    [columns |-> df.columns,
     rows |-> SubSeq(df.rows, 1, IF Len(df.rows) < k THEN Len(df.rows) ELSE k)]

\* df[col].values
Column(df, col) ==
    LET k == CHOOSE j \in 1..Len(df.columns) : df.columns[j] = col
    IN Array([i \in 1..Len(df.rows) |-> df.rows[i][k]])

\* df.to_csv(f, sep=",", header=..., index=...)
ToCsv(df, header, index) ==
    (IF header THEN <<(IF index THEN <<"">> ELSE <<>>) \o df.columns>> ELSE <<>>)
    \o [i \in 1..Len(df.rows) |->
           (IF index THEN <<ToString(i - 1)>> ELSE <<>>)
           \o [k \in 1..Len(df.rows[i]) |-> ToString(df.rows[i][k])]]

\* test_sample = test_df.drop(["fraud"], axis=1).iloc[:5]
\* test_sample.to_csv(csv_file, sep=",", header=False, index=False)
PayloadWithIndex(df) == ToCsv(Iloc(Drop(df, "fraud"), NumSampleRows), FALSE, TRUE)
Payload(df) == ToCsv(Iloc(Drop(df, "fraud"), NumSampleRows), FALSE, FALSE)

\* the model's answer for one line of the request: a text that depends on
\* that line alone (the model is opaque, its answer is kept symbolic)
Score(line) == ToString(line)

\* the response body: one prediction per request line, in request order,
\* separated by "," or "\n", with or without a closing "\n"
ResponseBody(request, sep, closing) ==
    [i \in 1..(2 * Len(request) - 1) |->
        IF i % 2 = 1 THEN Score(request[(i + 1) \div 2]) ELSE sep]
    \o (IF closing THEN <<"\n">> ELSE <<>>)

\* re.split(",|\n", result): the fields between the separators
ReSplit(text) ==
    LET seps == {i \in 1..Len(text) : text[i] \in {",", "\n"}}
        \* the place of the k-th separator; 0 and Len(text) + 1 close the text
        at(k) == IF k = 0 THEN 0
                 ELSE IF k > Cardinality(seps) THEN Len(text) + 1
                 ELSE CHOOSE i \in seps : Cardinality({j \in seps : j < i}) = k - 1
    IN Array([k \in 1..(Cardinality(seps) + 1) |->
                 SubSeq(text, at(k - 1) + 1, at(k) - 1)])

\* test_df = pd.read_csv(test_data_uri)   (an S3 read)
ReadCsv ==
    /\ Serverless /\ pc = "read_csv"
    /\ log' = Record("read_csv")
    /\ \E fault \in BOOLEAN :
        IF fault
        THEN Raise("read_csv") /\ UNCHANGED test_df
        ELSE /\ test_df' = ReadCsvFile(TestFile(MaxTestRows))
             /\ pc' = "invoke_endpoint"
             /\ UNCHANGED raised
    /\ UNCHANGED <<nb, matches, status, slept, models, endpointConfigs, endpoints,
                   atStart, payload, prediction_df, pipelineVars>>

\* the rest of the invocation cell: build the payload,
\* sm_runtime_client.invoke_endpoint(...) (served only by an InService
\* endpoint), split the response, build prediction_df
InvokeEndpoint ==
    /\ Serverless /\ pc = "invoke_endpoint"
    /\ log' = Record("invoke_endpoint")
    /\ \E request \in {Payload(test_df)} :
        /\ payload' = request
        /\ \E fault \in BOOLEAN :
            IF fault \/ endpoint_name \notin DOMAIN endpoints
                     \/ endpoints[endpoint_name] # "InService"
            THEN Raise("invoke_endpoint") /\ UNCHANGED prediction_df
            ELSE \E sep \in {",", "\n"}, closing \in BOOLEAN :
                 \E body \in {ResponseBody(request, sep, closing)},
                    labels \in {Column(Iloc(test_df, NumSampleRows), "fraud")} :
                 \E result \in {ReSplit(body)} :
                 \E predictions \in {SubSeq(result, 1, IF Len(result) < NumSampleRows
                                                       THEN Len(result)
                                                       ELSE NumSampleRows)} :
                    IF Len(labels) # Len(predictions)
                    THEN Raise("ValueError") /\ UNCHANGED prediction_df
                    ELSE /\ prediction_df' =
                             Array([i \in 1..Len(predictions) |->
                                       [Prediction |-> predictions[i],
                                        Label |-> labels[i]]])
                         /\ pc' = CellExit("invoke")
                         /\ UNCHANGED raised
    /\ UNCHANGED <<nb, matches, status, slept, models, endpointConfigs, endpoints,
                   atStart, test_df, pipelineVars>>

\* the code cell that holds a sentence of prose: the kernel reports a
\* SyntaxError and calls nothing; a run of all cells stops there, a user
\* stepping through the cells goes on to the teardown cell
ProseCell ==
    /\ Serverless /\ pc = "prose_cell"
    /\ \/ Raise("SyntaxError")
       \/ pc' = CellExit("prose") /\ UNCHANGED raised
    /\ UNCHANGED <<nb, log, serverlessVars, pipelineVars>>

\* sm_client.delete_model(ModelName=model_name)
DeleteModel ==
    /\ Serverless /\ pc = "delete_model"
    /\ log' = Record("delete_model")
    /\ \E fault \in BOOLEAN :
        IF fault \/ model_name \notin models
        THEN Raise("delete_model") /\ UNCHANGED models
        ELSE /\ models' = models \ {model_name}
             /\ pc' = AfterDelete("delete_model")
             /\ UNCHANGED raised
    /\ UNCHANGED <<nb, matches, status, slept, endpointConfigs, endpoints, sessionVars,
                   pipelineVars>>

\* sm_client.delete_endpoint_config(EndpointConfigName=endpoint_config_name)
DeleteEndpointConfigLeftOut ==
    /\ Serverless /\ pc = "delete_endpoint_config"
    /\ pc' = "delete_endpoint"
    /\ UNCHANGED <<nb, raised, log, serverlessVars, pipelineVars>>
DeleteEndpointConfig ==
    /\ Serverless /\ pc = "delete_endpoint_config"
    /\ log' = Record("delete_endpoint_config")
    /\ \E fault \in BOOLEAN :
        IF fault \/ endpoint_config_name \notin endpointConfigs
        THEN Raise("delete_endpoint_config") /\ UNCHANGED endpointConfigs
        ELSE /\ endpointConfigs' = endpointConfigs \ {endpoint_config_name}
             /\ pc' = AfterDelete("delete_endpoint_config")
             /\ UNCHANGED raised
    /\ UNCHANGED <<nb, matches, status, slept, models, endpoints, sessionVars,
                   pipelineVars>>

\* sm_client.delete_endpoint(EndpointName=endpoint_name): the call returns
\* with the endpoint in status Deleting; the platform removes it later
DeleteEndpoint ==
    /\ Serverless /\ pc = "delete_endpoint"
    /\ log' = Record("delete_endpoint")
    /\ \E fault \in BOOLEAN :
        IF fault \/ endpoint_name \notin DOMAIN endpoints
        THEN Raise("delete_endpoint") /\ UNCHANGED endpoints
        ELSE /\ endpoints' = [endpoints EXCEPT ![endpoint_name] = "Deleting"]
             /\ pc' = AfterDelete("delete_endpoint")
             /\ UNCHANGED raised
    /\ UNCHANGED <<nb, matches, status, slept, models, endpointConfigs, sessionVars,
                   pipelineVars>>

\* the platform finishes creating or updating an endpoint
EndpointProvisioned ==
    /\ Serverless
    /\ \E n \in DOMAIN endpoints, s \in {"InService", "Failed"} :
        /\ endpoints[n] \in {"Creating", "Updating"}
        /\ endpoints' = [endpoints EXCEPT ![n] = s]
    /\ UNCHANGED <<nb, pc, raised, log, matches, status, slept, models,
                   endpointConfigs, sessionVars,
                   pipelineVars>>

\* the platform finishes deleting an endpoint
EndpointRemoved ==
    /\ Serverless
    /\ \E n \in DOMAIN endpoints :
        /\ endpoints[n] = "Deleting"
        /\ endpoints' = [m \in (DOMAIN endpoints) \ {n} |-> endpoints[m]]
    /\ UNCHANGED <<nb, pc, raised, log, matches, status, slept, models,
                   endpointConfigs, sessionVars,
                   pipelineVars>>

ServerlessStep ==
    \/ ListModels \/ CreateModel
    \/ ListEndpointConfigs \/ CreateEndpointConfig
    \/ ListEndpoints \/ CreateEndpoint
    \/ DescribeEndpoint \/ WhileTest \/ Sleep
    \/ ReadCsv \/ InvokeEndpoint \/ ProseCell
    \/ DeleteModel \/ DeleteEndpointConfig \/ DeleteEndpoint

(***************************************************************************)
(* Pipeline notebook: the calls that reach the platform, in cell order.    *)
(* The step definitions in between are built under a PipelineSession and   *)
(* call nothing.                                                           *)
(***************************************************************************)
Pipeline == nb = "pipeline"

NotebookCalls ==
    <<"download_input", "upload_input", "download_batch", "upload_batch", "upsert">>

AfterCall(c) ==
    LET i == CHOOSE k \in 1..Len(NotebookCalls) : NotebookCalls[k] = c
    IN IF i = Len(NotebookCalls) THEN "submitted" ELSE NotebookCalls[i + 1]

\* s3.Bucket(...).download_file(...) and sagemaker.s3.S3Uploader.upload(...)
DataCall ==
    /\ Pipeline /\ pc \in {"download_input", "upload_input", "download_batch", "upload_batch"}
    /\ log' = Record(pc)
    /\ \E fault \in BOOLEAN :
        IF fault
        THEN Raise(pc)
        ELSE pc' = AfterCall(pc) /\ UNCHANGED raised
    /\ UNCHANGED <<nb, serverlessVars, pipelineVars>>

\* pipeline.upsert(role_arn=role)
Upsert ==
    /\ Pipeline /\ pc = "upsert"
    /\ log' = Record("upsert")
    /\ \E fault \in BOOLEAN :
        IF fault
        THEN Raise("upsert") /\ UNCHANGED upserted
        ELSE /\ upserted' = TRUE
             /\ pc' = AfterCall("upsert")
             /\ UNCHANGED raised
    /\ UNCHANGED <<nb, serverlessVars, jobVars, execStatus, params, stepStatus, report,
                   condOutcome, errorMessage, modelPackages, createdModel, transformRan,
                   flowVars>>

(***************************************************************************)
(* The AbalonePipeline definition.                                         *)
(***************************************************************************)
\* mse_threshold = ParameterFloat(name="MseThreshold", default_value=6.0)
MseThresholdDefault == 6
\* model_approval_status = ParameterString(..., default_value="PendingManualApproval")
ModelApprovalStatusDefault == "PendingManualApproval"

\* values an execution may give the two parameters
Thresholds == {MseThresholdDefault - 1, MseThresholdDefault, MseThresholdDefault + 1}
ApprovalStatuses == {ModelApprovalStatusDefault, "Approved"}

\* what an execution may give at its start: a value for none, one or both
Overrides ==
    {t @@ a : t \in {<<>>} \cup {("MseThreshold" :> v) : v \in Thresholds},
              a \in {<<>>} \cup {("ModelApprovalStatus" :> v) : v \in ApprovalStatuses}}

\* a parameter takes the value given at the start, or else its default_value
ParameterValuesDefaultsOnly(ov) ==
    [MseThreshold |-> MseThresholdDefault,
     ModelApprovalStatus |-> ModelApprovalStatusDefault]
ParameterValues(ov) ==
    [MseThreshold |->
        IF "MseThreshold" \in DOMAIN ov THEN ov["MseThreshold"] ELSE MseThresholdDefault,
     ModelApprovalStatus |->
        IF "ModelApprovalStatus" \in DOMAIN ov THEN ov["ModelApprovalStatus"]
        ELSE ModelApprovalStatusDefault]

\* steps=[step_process, step_train, step_eval, step_cond]
TopSteps == {"AbaloneProcess", "AbaloneTrain", "AbaloneEval", "AbaloneMSECond"}
\* if_steps=[step_register, step_create_model, step_transform]
IfSteps == {"AbaloneRegisterModel", "AbaloneCreateModel", "AbaloneTransform"}
\* else_steps=[step_fail]
ElseSteps == {"AbaloneMSEFail"}
Steps == TopSteps \cup IfSteps \cup ElseSteps
\* the steps that run a job or create a resource
JobSteps == Steps \ {"AbaloneMSECond", "AbaloneMSEFail"}

\* the outputs a step publishes: ProcessingOutput names, ModelArtifacts, ModelName
StepOutputs(s) ==
    CASE s = "AbaloneProcess" -> {"train", "validation", "test"}
      [] s = "AbaloneTrain" -> {"ModelArtifacts"}
      [] s = "AbaloneEval" -> {"evaluation"}
      [] s = "AbaloneCreateModel" -> {"ModelName"}
      [] OTHER -> {}

\* the outputs of other steps a step's arguments read, as <<step, output>>
\* (train_args: the channels "train" and "validation"; eval_args: the model
\* artifact and the "test" output)
StepInputsAllSplits(s) ==
    CASE s = "AbaloneTrain" ->
            {<<"AbaloneProcess", o>> : o \in {"train", "validation", "test"}}
      [] s = "AbaloneEval" ->
            {<<"AbaloneTrain", "ModelArtifacts">>, <<"AbaloneProcess", "test">>}
      [] s = "AbaloneMSECond" -> {<<"AbaloneEval", "evaluation">>}
      [] s = "AbaloneCreateModel" -> {<<"AbaloneTrain", "ModelArtifacts">>}
      [] s = "AbaloneRegisterModel" -> {<<"AbaloneTrain", "ModelArtifacts">>}
      [] s = "AbaloneTransform" -> {<<"AbaloneCreateModel", "ModelName">>}
      [] OTHER -> {}
StepInputs(s) ==
    CASE s = "AbaloneTrain" ->
            {<<"AbaloneProcess", "train">>, <<"AbaloneProcess", "validation">>}
      [] s = "AbaloneEval" ->
            {<<"AbaloneTrain", "ModelArtifacts">>, <<"AbaloneProcess", "test">>}
      [] s = "AbaloneMSECond" -> {<<"AbaloneEval", "evaluation">>}
      [] s = "AbaloneCreateModel" -> {<<"AbaloneTrain", "ModelArtifacts">>}
      [] s = "AbaloneRegisterModel" -> {<<"AbaloneTrain", "ModelArtifacts">>}
      [] s = "AbaloneTransform" -> {<<"AbaloneCreateModel", "ModelName">>}
      [] OTHER -> {}

\* the steps whose properties a step's arguments refer to (its data dependencies)
ReferencesTransformerLiteralName(s) ==
    CASE s = "AbaloneTrain" -> {"AbaloneProcess"}
      [] s = "AbaloneEval" -> {"AbaloneTrain", "AbaloneProcess"}
      [] s = "AbaloneMSECond" -> {"AbaloneEval"}
      [] s = "AbaloneCreateModel" -> {"AbaloneTrain"}
      [] s = "AbaloneRegisterModel" -> {"AbaloneTrain"}
      [] OTHER -> {}
ReferencesLiteralInputs(s) ==
    CASE s = "AbaloneEval" -> {"AbaloneTrain"}
      [] s = "AbaloneMSECond" -> {"AbaloneEval"}
      [] s = "AbaloneCreateModel" -> {"AbaloneTrain"}
      [] s = "AbaloneRegisterModel" -> {"AbaloneTrain"}
      [] s = "AbaloneTransform" -> {"AbaloneCreateModel"}
      [] OTHER -> {}
References(s) ==
    CASE s = "AbaloneTrain" -> {"AbaloneProcess"}
      [] s = "AbaloneEval" -> {"AbaloneTrain", "AbaloneProcess"}
      [] s = "AbaloneMSECond" -> {"AbaloneEval"}
      [] s = "AbaloneCreateModel" -> {"AbaloneTrain"}
      [] s = "AbaloneRegisterModel" -> {"AbaloneTrain"}
      [] s = "AbaloneTransform" -> {"AbaloneCreateModel"}
      [] OTHER -> {}

\* evaluation.py: report_dict
EvaluationReport(mse, std) ==
    [regression_metrics |-> [mse |-> [value |-> mse, standard_deviation |-> std]]]

\* evaluation.py: output_dir and evaluation_path
EvaluationPath == [dir |-> "/opt/ml/processing/evaluation", file |-> "evaluation.json"]

\* eval_args: ProcessingOutput(output_name="evaluation", source=...)
EvaluationOutput ==
    [output_name |-> "evaluation", source |-> "/opt/ml/processing/evaluation"]

\* PropertyFile(name="EvaluationReport", output_name="evaluation", path="evaluation.json")
evaluation_report ==
    [name |-> "EvaluationReport", output_name |-> "evaluation", path |-> "evaluation.json"]

\* the document a property file stands for: the file at `path` in the step
\* output `output_name`, <<>> when the step wrote no such file
PropertyFileContent(pf, written) ==
    IF /\ pf.output_name = EvaluationOutput.output_name
       /\ EvaluationOutput.source = EvaluationPath.dir
       /\ pf.path = EvaluationPath.file
    THEN written
    ELSE <<>>

\* json_path="regression_metrics.mse.value"
MseJsonPathStandardDeviation == <<"regression_metrics", "mse", "standard_deviation">>
MseJsonPath == <<"regression_metrics", "mse", "value">>

\* JsonGet: follow the keys of the path into the property file
RECURSIVE JsonGet(_, _)
JsonGet(doc, path) ==
    IF path = <<>> THEN doc ELSE JsonGet(doc[Head(path)], Tail(path))

\* ConditionLessThanOrEqualTo(left=..., right=mse_threshold)
CondLessThan(left, right) == left < right
CondLte(left, right) == left <= right

\* Join(on=..., values=[...])
RECURSIVE Join(_, _)
Join(on, values) ==
    IF Len(values) = 0 THEN <<>>
    ELSE IF Len(values) = 1 THEN <<values[1]>>
    ELSE <<values[1], on>> \o Join(on, Tail(values))

\* error_message=Join(on=" ", values=["Execution failed due to MSE >", mse_threshold])
FailErrorMessageNoSeparator(p) ==
    Join("", <<"Execution failed due to MSE >", ToString(p.MseThreshold)>>)
FailErrorMessage(p) ==
    Join(" ", <<"Execution failed due to MSE >", ToString(p.MseThreshold)>>)

(***************************************************************************)
(* The orchestrator executing the stored definition.                       *)
(***************************************************************************)
\* the branch of the condition step that holds s has been chosen
Selected(s) ==
    \/ s \in TopSteps
    \/ s \in IfSteps /\ condOutcome = "True"
    \/ s \in ElseSteps /\ condOutcome = "False"

Runnable(s) ==
    /\ execStatus = "Executing"
    /\ stepStatus[s] = "NotStarted"
    /\ Selected(s)
    /\ \A d \in References(s) : stepStatus[d] = "Succeeded"

\* a failing step fails the execution and stops the steps still running
FailedBy(s) ==
    [t \in Steps |-> IF t = s THEN "Failed"
                     ELSE IF stepStatus[t] = "Executing" THEN "Stopped"
                     ELSE stepStatus[t]]

\* an execution is started on the stored definition (parameters may be overridden)
StartExecution ==
    /\ Pipeline /\ upserted /\ execStatus = "None"
    /\ \E ov \in Overrides :
        /\ overrides' = ov
        /\ params' = ParameterValues(ov)
    /\ execStatus' = "Executing"
    /\ UNCHANGED <<nb, pc, raised, log, serverlessVars, jobVars, upserted, stepStatus, report,
                   condOutcome, errorMessage, modelPackages, createdModel, transformRan,
                   artifacts, consumed, evalMse, condCompared>>

StartStep ==
    /\ Pipeline
    /\ \E s \in JobSteps :
        /\ Runnable(s)
        /\ stepStatus' = [stepStatus EXCEPT ![s] = "Executing"]
        /\ transformRan' = (transformRan \/ s = "AbaloneTransform")
        /\ consumed' = [consumed EXCEPT ![s] = StepInputs(s)]
    /\ UNCHANGED <<nb, pc, raised, log, serverlessVars, jobVars, upserted, execStatus, params,
                   report, condOutcome, errorMessage, modelPackages, createdModel,
                   overrides, artifacts, evalMse, condCompared>>

StepSucceeds ==
    /\ Pipeline /\ execStatus = "Executing"
    /\ \E s \in JobSteps :
        /\ stepStatus[s] = "Executing"
        /\ stepStatus' = [stepStatus EXCEPT ![s] = "Succeeded"]
        /\ IF s = "AbaloneEval"
           THEN \E mse \in 0..MaxMse, std \in 0..1 :
                    /\ evalMse' = <<mse>>
                    /\ report' = <<EvaluationReport(mse, std)>>
           ELSE UNCHANGED <<evalMse, report>>
        /\ artifacts' =
            [r \in {<<s, o>> : o \in StepOutputs(s)} |->
                IF s = "AbaloneProcess" THEN {r[2]}
                ELSE UNION {artifacts[i] : i \in consumed[s] \cap DOMAIN artifacts}]
            @@ artifacts
        /\ createdModel' = (createdModel \/ s = "AbaloneCreateModel")
        /\ modelPackages' =
            IF s = "AbaloneRegisterModel"
            THEN modelPackages \cup
                 {[ModelPackageGroupName |-> "AbaloneModelPackageGroupName",
                   ModelApprovalStatus |-> params.ModelApprovalStatus]}
            ELSE modelPackages
    /\ UNCHANGED <<nb, pc, raised, log, serverlessVars, jobVars, upserted, execStatus, params,
                   condOutcome, errorMessage, transformRan, overrides, consumed,
                   condCompared>>

StepFails ==
    /\ Pipeline /\ execStatus = "Executing"
    /\ \E s \in JobSteps :
        /\ stepStatus[s] = "Executing"
        /\ stepStatus' = FailedBy(s)
        /\ errorMessage' = <<"Step failed:", s>>
    /\ execStatus' = "Failed"
    /\ UNCHANGED <<nb, pc, raised, log, serverlessVars, jobVars, upserted, params, report,
                   condOutcome, modelPackages, createdModel, transformRan, flowVars>>

\* AbaloneMSECond: read the property file and compare with MseThreshold
EvaluateCondition ==
    /\ Pipeline /\ Runnable("AbaloneMSECond")
    /\ consumed' = [consumed EXCEPT !["AbaloneMSECond"] = StepInputs("AbaloneMSECond")]
    /\ LET document == PropertyFileContent(evaluation_report, report)
       IN IF document = <<>>
          THEN /\ stepStatus' = FailedBy("AbaloneMSECond")
               /\ execStatus' = "Failed"
               /\ errorMessage' = <<"Step failed:", "AbaloneMSECond">>
               /\ UNCHANGED <<condOutcome, condCompared>>
          ELSE LET left == JsonGet(document[1], MseJsonPath)
                   right == params.MseThreshold
               IN /\ stepStatus' = [stepStatus EXCEPT !["AbaloneMSECond"] = "Succeeded"]
                  /\ condCompared' = <<left, right>>
                  /\ condOutcome' = IF CondLte(left, right) THEN "True" ELSE "False"
                  /\ UNCHANGED <<execStatus, errorMessage>>
    /\ UNCHANGED <<nb, pc, raised, log, serverlessVars, jobVars, upserted, params, report,
                   modelPackages, createdModel, transformRan, overrides, artifacts,
                   evalMse>>

\* AbaloneMSEFail: end the execution as Failed with the error message
RunFailStep ==
    /\ Pipeline /\ Runnable("AbaloneMSEFail")
    /\ stepStatus' = FailedBy("AbaloneMSEFail")
    /\ execStatus' = "Failed"
    /\ errorMessage' = FailErrorMessage(params)
    /\ UNCHANGED <<nb, pc, raised, log, serverlessVars, jobVars, upserted, params, report,
                   condOutcome, modelPackages, createdModel, transformRan, flowVars>>

\* every step of the chosen path has succeeded
ExecutionSucceeds ==
    /\ Pipeline /\ execStatus = "Executing"
    /\ \A s \in Steps : Selected(s) => stepStatus[s] = "Succeeded"
    /\ condOutcome # "NotEvaluated"
    /\ execStatus' = "Succeeded"
    /\ UNCHANGED <<nb, pc, raised, log, serverlessVars, jobVars, upserted, params, stepStatus,
                   report, condOutcome, errorMessage, modelPackages, createdModel,
                   transformRan, flowVars>>

PipelineStep ==
    \/ DataCall \/ Upsert
    \/ StartExecution \/ StartStep \/ StepSucceeds \/ StepFails
    \/ EvaluateCondition \/ RunFailStep \/ ExecutionSucceeds

(***************************************************************************)
(* The job scripts: preprocessing.py as AbaloneProcess runs it on the      *)
(* input data set, then evaluation.py on the test.csv that run wrote.      *)
(* The data set has the categorical column sex, one numeric feature column *)
(* (length, standing for the seven numeric columns, which the script       *)
(* treats alike) and the label column rings, in the file's column order.   *)
(***************************************************************************)
Jobs == nb = "jobs"

\* names=feature_columns_names + [label_column]
InputColumns == <<"sex", "length", "rings">>

\* abalone-dataset.csv: headerless lines; "" is a missing value
SexValues == <<"M", "F", "", "I">>
InputRow(i) ==
    <<SexValues[(i % 4) + 1],
      IF i % 5 = 4 THEN "" ELSE ToString(2 + i),
      ToString(5 + ((3 * i) % 7))>>
InputFile(n) == [i \in 1..n |-> InputRow(i)]

\* the numbers the cells of the scripts' files may hold
FloatValues ==
    LET k == 2 * MaxRows * (MaxRows + 2) IN (0 - k)..k

\* a float64 cell: <<>> is NaN
ParseFloat(txt) ==
    IF txt = "" THEN <<>> ELSE <<CHOOSE v \in FloatValues : ToString(v) = txt>>

\* df = pd.read_csv(..., header=None, names=..., dtype=...)
ReadInput(file) ==
    [columns |-> InputColumns,
     rows |-> Array([i \in 1..Len(file) |->
                  <<file[i][1], ParseFloat(file[i][2]), ParseFloat(file[i][3])[1]>>])]

RECURSIVE Sum(_)
Sum(s) == IF s = <<>> THEN 0 ELSE Head(s) + Sum(Tail(s))

\* the k-th smallest of the values of s
Kth(s, k) ==
    CHOOSE v \in Range(s) :
        /\ Cardinality({i \in 1..Len(s) : s[i] < v}) < k
        /\ k <= Cardinality({i \in 1..Len(s) : s[i] <= v})

\* twice the median of the values of s
TwiceMedian(s) ==
    IF Len(s) % 2 = 1
    THEN 2 * Kth(s, (Len(s) + 1) \div 2)
    ELSE Kth(s, Len(s) \div 2) + Kth(s, Len(s) \div 2 + 1)

\* numeric_transformer: SimpleImputer(strategy="median"), StandardScaler().
\* The scaled value of row i is (x_i - mean) / std; it is kept as
\* 2 * n * (x_i - mean), the same number up to the positive factor
\* 1 / (2 * n * std) that is common to the column.
NumericTransform(column) ==
    LET there == SelectSeq(column, LAMBDA c : c # <<>>)
        values == Array([i \in 1..Len(there) |-> there[i][1]])
        median == TwiceMedian(values)
        imputed == Array([i \in 1..Len(column) |->
                             IF column[i] = <<>> THEN median ELSE 2 * column[i][1]])
        total == Sum(imputed)
    IN Array([i \in 1..Len(column) |-> Len(column) * imputed[i] - total])

\* categorical_transformer: SimpleImputer(strategy="constant",
\* fill_value="missing"), OneHotEncoder: one 0/1 column per category found,
\* the categories in sorted order
CategoricalTransform(column) ==
    LET filled == Array([i \in 1..Len(column) |->
                            IF column[i] = "" THEN "missing" ELSE column[i]])
        categories == SelectSeq(<<"F", "I", "M", "missing">>,
                                LAMBDA c : \E i \in 1..Len(filled) : filled[i] = c)
    IN Array([i \in 1..Len(column) |->
                 Array([k \in 1..Len(categories) |->
                           IF categories[k] = filled[i] THEN 1 ELSE 0])])

\* np.concatenate((a, b), axis=1)
Concatenate(a, b) == Array([i \in 1..Len(a) |-> a[i] \o b[i]])

\* preprocess.fit_transform(df): the numeric columns, then the one-hot ones
FitTransform(df) ==
    LET num == NumericTransform(Column(df, "length"))
        cat == CategoricalTransform(Column(df, "sex"))
    IN Concatenate([i \in 1..Len(df.rows) |-> <<num[i]>>], cat)

\* int(0.7 * n) and int(0.85 * n): the double product, truncated.  For every
\* n below 90 the double product truncates to the exact floor used here.
SplitPoints(n) == <<(7 * n) \div 10, (85 * n) \div 100>>

\* np.split(a, [i, j]): a[:i], a[i:j], a[j:]
NpSplitOverlapping(a, at) ==
    <<SubSeq(a, 1, at[1]), SubSeq(a, at[1] + 1, at[2]), SubSeq(a, at[1] + 1, Len(a))>>
NpSplit(a, at) ==
    <<SubSeq(a, 1, at[1]), SubSeq(a, at[1] + 1, at[2]), SubSeq(a, at[2] + 1, Len(a))>>

\* pd.DataFrame(a): the columns are numbered from 0
DataFrame(a) ==
    [columns |-> [k \in 1..(IF a = <<>> THEN 0 ELSE Len(a[1])) |-> ToString(k - 1)],
     rows |-> a]

\* pd.DataFrame(a).to_csv(path, header=False, index=False)
WriteCsvWithHeader(a) == ToCsv(DataFrame(a), TRUE, FALSE)
WriteCsv(a) == ToCsv(DataFrame(a), FALSE, FALSE)

\* pd.read_csv(test_path, header=None): every line is a row
ReadHeaderless(file) ==
    Array([i \in 1..Len(file) |->
              Array([k \in 1..Len(file[i]) |-> ParseFloat(file[i][k])[1]])])

\* y = df.pop("rings"); X_pre = preprocess.fit_transform(df)
\* y_pre = y.to_numpy().reshape(len(y), 1); X = np.concatenate((y_pre, X_pre), axis=1)
FitTransformAndConcatenate ==
    /\ Jobs /\ pc = "fit_transform"
    /\ \E df \in {ReadInput(dataset)} :
        \E y \in {Column(df, "rings")}, X_pre \in {FitTransform(Drop(df, "rings"))} :
            X' = Concatenate([i \in 1..Len(y) |-> <<y[i]>>], X_pre)
    /\ pc' = "shuffle"
    /\ UNCHANGED <<nb, raised, log, serverlessVars, executionVars, dataset, files,
                   y_test, X_test>>

\* np.random.shuffle(X): the rows of X in some other order
Shuffle ==
    /\ Jobs /\ pc = "shuffle"
    /\ \E order \in Permutations(1..Len(X)) :
        X' = [i \in 1..Len(X) |-> X[order[i]]]
    /\ pc' = "split"
    /\ UNCHANGED <<nb, raised, log, serverlessVars, executionVars, dataset, files,
                   y_test, X_test>>

\* train, validation, test = np.split(X, [...]) and the three to_csv calls
SplitAndWrite ==
    /\ Jobs /\ pc = "split"
    /\ \E parts \in {NpSplit(X, SplitPoints(Len(X)))} :
        files' = [f \in {"train.csv", "validation.csv", "test.csv"} |->
                     CASE f = "train.csv" -> WriteCsv(parts[1])
                       [] f = "validation.csv" -> WriteCsv(parts[2])
                       [] f = "test.csv" -> WriteCsv(parts[3])]
    /\ pc' = "evaluation"
    /\ UNCHANGED <<nb, raised, log, serverlessVars, executionVars, dataset, X,
                   y_test, X_test>>

\* evaluation.py: df = pd.read_csv(test_path, header=None)
\* y_test = df.iloc[:, 0].to_numpy(); df.drop(df.columns[0], axis=1, inplace=True)
\* X_test = xgboost.DMatrix(df.values)
EvaluationRead ==
    /\ Jobs /\ pc = "evaluation"
    /\ \E df \in {ReadHeaderless(files["test.csv"])} :
        /\ y_test' = [i \in 1..Len(df) |-> df[i][1]]
        /\ X_test' = [i \in 1..Len(df) |-> Without(df[i], 1)]
    /\ pc' = "done"
    /\ UNCHANGED <<nb, raised, log, serverlessVars, executionVars, dataset, X, files>>

JobStep == FitTransformAndConcatenate \/ Shuffle \/ SplitAndWrite \/ EvaluationRead

(***************************************************************************)
(* The specification.                                                      *)
(***************************************************************************)
Init ==
    /\ nb \in {"serverless", "pipeline", "jobs"}
    /\ pc = CASE nb = "serverless" -> EntryPc(CellOrder[1])
              [] nb = "pipeline" -> NotebookCalls[1]
              [] nb = "jobs" -> "fit_transform"
    /\ raised = "none"
    /\ log = <<>>
    /\ matches = <<>>
    /\ status = "unset"
    /\ slept = 0
    /\ IF nb = "serverless"
       THEN /\ models \in SUBSET ModelNames
            /\ endpointConfigs \in SUBSET EndpointConfigNames
            /\ \E others \in SUBSET (EndpointNames \ {endpoint_name}),
                  own \in SUBSET {endpoint_name}, st \in EndpointStatuses :
                 endpoints = [n \in others \cup own |->
                                 IF n = endpoint_name THEN st ELSE "InService"]
       ELSE /\ models = {}
            /\ endpointConfigs = {}
            /\ endpoints = <<>>
    /\ atStart = [models |-> models, endpointConfigs |-> endpointConfigs,
                  endpoints |-> endpoints]
    /\ test_df = <<>>
    /\ payload = <<>>
    /\ prediction_df = <<>>
    /\ upserted = FALSE
    /\ execStatus = "None"
    /\ params = [MseThreshold |-> MseThresholdDefault,
                 ModelApprovalStatus |-> ModelApprovalStatusDefault]
    /\ stepStatus = [s \in Steps |-> "NotStarted"]
    /\ report = <<>>
    /\ condOutcome = "NotEvaluated"
    /\ errorMessage = <<>>
    /\ modelPackages = {}
    /\ createdModel = FALSE
    /\ transformRan = FALSE
    /\ overrides = <<>>
    /\ artifacts = <<>>
    /\ consumed = [s \in Steps |-> {}]
    /\ evalMse = <<>>
    /\ condCompared = <<>>
    /\ IF nb = "jobs"
       THEN \E n \in 1..MaxRows : dataset = InputFile(n)
       ELSE dataset = <<>>
    /\ X = <<>>
    /\ files = <<>>
    /\ y_test = <<>>
    /\ X_test = <<>>

Next ==
    \/ ServerlessStep \/ EndpointProvisioned \/ EndpointRemoved
    \/ PipelineStep
    \/ JobStep

Spec == Init /\ [][Next]_vars

\* the kernel runs the notebook's next statement; the platform owes nothing
FairSpec == Spec /\ WF_vars(ServerlessStep)

(***************************************************************************)
(* Properties.                                                             *)
(***************************************************************************)
Started(s) == stepStatus[s] # "NotStarted"
EarlierSucceeded ==
    \A s \in {"AbaloneProcess", "AbaloneTrain", "AbaloneEval"} : stepStatus[s] = "Succeeded"
ReportedMse == JsonGet(report[1], MseJsonPath)
RegisterBranchRuns == \E s \in IfSteps : Started(s)

\* C1: in an execution whose process, train and eval steps succeeded, the
\* condition step chooses the register branch exactly when the reported
\* regression_metrics.mse.value is <= MseThreshold (equality included) and the
\* fail step otherwise; the chosen branch's steps become runnable, and no
\* execution runs both a register-branch step and the fail step.
C1_ConditionRouting ==
    (Pipeline /\ EarlierSucceeded /\ condOutcome # "NotEvaluated") =>
        /\ condOutcome = "True" <=> ReportedMse <= params.MseThreshold
        /\ condOutcome = "False" <=> ReportedMse > params.MseThreshold
        /\ RegisterBranchRuns => ReportedMse <= params.MseThreshold
        /\ Started("AbaloneMSEFail") => ReportedMse > params.MseThreshold
        /\ ~(RegisterBranchRuns /\ Started("AbaloneMSEFail"))
        /\ (execStatus = "Executing" /\ ReportedMse <= params.MseThreshold) =>
              \A s \in {"AbaloneRegisterModel", "AbaloneCreateModel"} :
                  Started(s) \/ Runnable(s)
        /\ (execStatus = "Executing" /\ ReportedMse > params.MseThreshold) =>
              Runnable("AbaloneMSEFail")

\* C1 witness: the MSE equals the threshold and the register branch ran to
\* the batch transform.
C1_Witness ==
    /\ Pipeline /\ EarlierSucceeded /\ condOutcome = "True"
    /\ ReportedMse = params.MseThreshold
    /\ stepStatus["AbaloneTransform"] = "Succeeded"

\* C2: AbaloneTrain never starts before AbaloneProcess has succeeded,
\* AbaloneEval never before AbaloneTrain and AbaloneProcess have, and
\* AbaloneMSECond is never evaluated before AbaloneEval has succeeded and
\* its evaluation report is written.
C2_StepOrder ==
    Pipeline =>
        /\ Started("AbaloneTrain") => stepStatus["AbaloneProcess"] = "Succeeded"
        /\ Started("AbaloneEval") =>
              /\ stepStatus["AbaloneTrain"] = "Succeeded"
              /\ stepStatus["AbaloneProcess"] = "Succeeded"
        /\ (Started("AbaloneMSECond") \/ condOutcome # "NotEvaluated") =>
              /\ stepStatus["AbaloneEval"] = "Succeeded"
              /\ report # <<>>

\* C2 witness: the condition has been evaluated after the three steps.
C2_Witness ==
    /\ Pipeline /\ stepStatus["AbaloneMSECond"] = "Succeeded"
    /\ EarlierSucceeded /\ report # <<>>

\* the run is past the polling loop of the endpoint cell
PastLoop ==
    /\ Serverless
    /\ \/ pc \in {"read_csv", "invoke_endpoint", "prose_cell", "delete_model",
                  "delete_endpoint_config", "delete_endpoint", "done"}
       \/ pc = "halted" /\ raised \in {"read_csv", "invoke_endpoint", "SyntaxError",
                                       "delete_model", "delete_endpoint_config",
                                       "delete_endpoint"}

\* C3 as stated: once the polling loop has exited, the last observed
\* EndpointStatus is InService.
C3_LoopExitsInService == PastLoop => status = "InService"

\* C3 as amended: once the polling loop has exited, the last observed
\* EndpointStatus is a status other than Creating (InService, but also
\* Failed, Updating or Deleting), and invoke_endpoint is issued only after
\* such a status was observed.
C3_LoopExitsNotCreating ==
    /\ PastLoop => status \in EndpointStatuses \ {"Creating"}
    /\ (Serverless /\ "invoke_endpoint" \in Range(log)) =>
          status \in EndpointStatuses \ {"Creating"}

\* C3 witness: invoke_endpoint was issued after the loop ended on Failed.
C3_Witness ==
    /\ Serverless /\ "invoke_endpoint" \in Range(log)
    /\ status = "Failed" /\ raised = "invoke_endpoint"

\* the phase of the serverless flow a call belongs to
Phase(c) ==
    CASE c \in {"list_models", "create_model"} -> 1
      [] c \in {"list_endpoint_configs", "create_endpoint_config"} -> 2
      [] c \in {"list_endpoints", "create_endpoint"} -> 3
      [] c = "describe_endpoint" -> 4
      [] c \in {"read_csv", "invoke_endpoint"} -> 5
      [] c \in {"delete_model", "delete_endpoint_config", "delete_endpoint"} -> 6
Deletes == {"delete_model", "delete_endpoint_config", "delete_endpoint"}

\* C4: the calls of the serverless flow are issued in the order model,
\* endpoint configuration, endpoint, status polling, invocation, deletion:
\* no call of an earlier phase follows a call of a later one, invoke_endpoint
\* is issued only past the polling loop, and a delete only after the
\* invocation.
C4_CallOrder ==
    Serverless =>
        /\ \A i, j \in 1..Len(log) : i < j => Phase(log[i]) <= Phase(log[j])
        /\ "invoke_endpoint" \in Range(log) =>
              /\ "describe_endpoint" \in Range(log)
              /\ PastLoop
        /\ (Range(log) \cap Deletes # {}) => "invoke_endpoint" \in Range(log)
        /\ \A c \in {"create_endpoint_config", "create_endpoint"} :
              c \in Range(log) => "list_models" \in Range(log)
        /\ "create_endpoint" \in Range(log) => "list_endpoint_configs" \in Range(log)

\* C4 witness: a run that created all three resources and reached its end.
C4_Witness ==
    /\ Serverless /\ pc = "done"
    /\ {"create_model", "create_endpoint_config", "create_endpoint",
        "describe_endpoint", "invoke_endpoint"} \cup Deletes \subseteq Range(log)

InLoop == Serverless /\ pc \in {"while", "sleep", "describe_endpoint_loop"}

\* C5: inside the polling loop, a test that sees "Creating" always goes on to
\* a sleep of 60 seconds followed by exactly one describe_endpoint (no
\* timeout, no backoff, no other way out than an exception of that call); a
\* test that sees any other status leaves the loop; and once the platform
\* reports a status other than "Creating" the loop is left.
C5_PollingLoop ==
    /\ [][ /\ (Serverless /\ pc = "while" /\ pc' # pc) =>
                 /\ pc' = IF status = "Creating" THEN "sleep" ELSE "read_csv"
                 /\ log' = log
           /\ (Serverless /\ pc = "sleep" /\ pc' # pc) =>
                 /\ pc' = "describe_endpoint_loop"
                 /\ slept' = 60
                 /\ log' = log
           /\ (Serverless /\ pc = "describe_endpoint_loop" /\ pc' # pc) =>
                 \/ pc' = "while" /\ status' = endpoints[endpoint_name]
                 \/ pc' = "halted" /\ raised' = "describe_endpoint"
           /\ (Serverless /\ pc' = "read_csv" /\ pc # pc') =>
                 pc = "while" /\ status # "Creating"
         ]_vars
    /\ (InLoop /\ endpoint_name \in DOMAIN endpoints
               /\ endpoints[endpoint_name] # "Creating") ~> ~InLoop

\* C5 witness: the loop is sleeping again after a second "Creating".
C5_Witness ==
    /\ Serverless /\ pc = "sleep" /\ status = "Creating"
    /\ Count(log, "describe_endpoint") >= 2

Target(k) ==
    CASE k = "model" -> model_name
      [] k = "endpoint_config" -> endpoint_config_name
      [] k = "endpoint" -> endpoint_name
CreateCall(k) ==
    CASE k = "model" -> "create_model"
      [] k = "endpoint_config" -> "create_endpoint_config"
      [] k = "endpoint" -> "create_endpoint"

\* C6 as stated: for each resource kind the create call is issued if and
\* only if no resource of that kind with the target name existed when the
\* cell listed the resources.
C6_CreateIffNoSameName ==
    Serverless =>
        \A k \in DOMAIN matches :
            (pc = CreateCall(k) \/ CreateCall(k) \in Range(log))
                <=> Target(k) \notin matches[k]

\* deleted: gone, or (the endpoint) accepted for deletion by the platform
NoneRemains ==
    /\ model_name \notin models
    /\ endpoint_config_name \notin endpointConfigs
    /\ endpoint_name \in DOMAIN endpoints => endpoints[endpoint_name] = "Deleting"

\* C7 as stated: once the teardown cell has ended, however the earlier cells
\* left the resources, none of the three remains.
C7_TeardownAlwaysCleans ==
    (Serverless /\ (pc = "done" \/ (pc = "halted" /\ raised \in Deletes)))
        => NoneRemains

\* C7 as amended: once the teardown cell has run to its end without an
\* exception, none of the three resources remains.
C7_TeardownCompleted == (Serverless /\ pc = "done") => NoneRemains

\* C7 witness: a run that found all three resources already there and
\* deleted them.
C7_Witness ==
    /\ Serverless /\ pc = "done"
    /\ Range(log) \cap {"create_model", "create_endpoint_config", "create_endpoint"} = {}

\* C8: an exception of a call stops the run at that call: the call is the
\* last one issued, nothing is issued afterwards, no pipeline is stored or
\* executed after a raise, and no call other than describe_endpoint is
\* issued twice in a run.
C8_NoCatchNoRetry ==
    /\ [](raised # "none" =>
            /\ pc = "halted"
            /\ raised # "SyntaxError" => log # <<>> /\ log[Len(log)] = raised
            /\ Pipeline => ~upserted /\ execStatus = "None")
    /\ [](\A c \in Range(log) : c # "describe_endpoint" => Count(log, c) = 1)
    /\ [][raised # "none" => log' = log /\ raised' = raised /\ pc' = pc]_vars

\* C8 witness: create_endpoint_config raised after the model was created.
C8_Witness ==
    /\ Serverless /\ raised = "create_endpoint_config"
    /\ "create_model" \in Range(log)

Kinds == {"model", "endpoint_config", "endpoint"}

\* C9 as stated: a run that reaches its end has issued create_model,
\* create_endpoint_config and create_endpoint exactly once each.
C9_CreatesUnconditional ==
    (Serverless /\ pc = "done") =>
        \A k \in Kinds : Count(log, CreateCall(k)) = 1

\* C9 as amended: each create call is issued at most once, and exactly when
\* the list call before it (NameContains = the target name) found nothing;
\* when the list call found a match the create call is skipped.
C9_CreatesGuarded ==
    Serverless =>
        \A k \in Kinds :
            /\ Count(log, CreateCall(k)) <= 1
            /\ (pc = CreateCall(k) \/ CreateCall(k) \in Range(log)) =>
                  k \in DOMAIN matches /\ matches[k] = {}
            /\ (k \in DOMAIN matches /\ matches[k] = {}) =>
                  pc = CreateCall(k) \/ CreateCall(k) \in Range(log)

\* C9 witness: a finished run that skipped create_model and issued
\* create_endpoint.
C9_Witness ==
    /\ Serverless /\ pc = "done"
    /\ "create_model" \notin Range(log)
    /\ "create_endpoint" \in Range(log)

\* C10: when AbaloneMSEFail runs, the execution is Failed with the message
\* "Execution failed due to MSE > <MseThreshold>", and no model is created,
\* no model package registered and no transform started; an ended execution
\* whose process, train and eval steps succeeded was failed by that step
\* exactly when the MSE is strictly greater than MseThreshold.
C10_FailStep ==
    Pipeline =>
        /\ Started("AbaloneMSEFail") =>
              /\ execStatus = "Failed"
              /\ stepStatus["AbaloneMSEFail"] = "Failed"
              /\ errorMessage = <<"Execution failed due to MSE >", " ",
                                  ToString(params.MseThreshold)>>
              /\ ~RegisterBranchRuns
              /\ ~createdModel /\ modelPackages = {} /\ ~transformRan
        /\ (EarlierSucceeded /\ execStatus \in {"Succeeded", "Failed"}) =>
              (stepStatus["AbaloneMSEFail"] = "Failed"
                  <=> ReportedMse > params.MseThreshold)

\* C10 witness: the MSE is one above the threshold and the fail step ended
\* the execution.
C10_Witness ==
    /\ Pipeline /\ EarlierSucceeded
    /\ stepStatus["AbaloneMSEFail"] = "Failed"
    /\ ReportedMse = params.MseThreshold + 1

ReportKeys(doc) ==
    /\ DOMAIN doc = {"regression_metrics"}
    /\ DOMAIN doc.regression_metrics = {"mse"}
    /\ DOMAIN doc.regression_metrics.mse = {"value", "standard_deviation"}

\* C12: the evaluation report always has the fixed key layout
\* regression_metrics.mse.{value, standard_deviation}; it is there once
\* AbaloneEval has succeeded; the property file EvaluationReport (output
\* "evaluation", path evaluation.json) stands for that report, so the
\* condition step, once started, has read a value (it never fails on a
\* missing one) and the value it compared is the MSE evaluation.py computed
\* in this execution.
C12_ReportLayoutAndPath ==
    Pipeline =>
        /\ report # <<>> =>
              /\ ReportKeys(report[1])
              /\ evalMse # <<>>
              /\ report[1].regression_metrics.mse.value = evalMse[1]
              /\ stepStatus["AbaloneEval"] = "Succeeded"
        /\ stepStatus["AbaloneEval"] = "Succeeded" =>
              /\ report # <<>>
              /\ PropertyFileContent(evaluation_report, report) = report
        /\ Started("AbaloneMSECond") =>
              /\ stepStatus["AbaloneMSECond"] = "Succeeded"
              /\ condCompared # <<>>
        /\ condCompared # <<>> =>
              /\ evalMse # <<>>
              /\ condCompared[1] = evalMse[1]
              /\ consumed["AbaloneMSECond"] = {<<"AbaloneEval", "evaluation">>}
              /\ <<"AbaloneEval", "evaluation">> \in DOMAIN artifacts

\* C12 witness: the condition compared an MSE that differs from the
\* standard deviation in the same report.
C12_Witness ==
    /\ Pipeline /\ condCompared # <<>>
    /\ report[1].regression_metrics.mse.value = MaxMse
    /\ report[1].regression_metrics.mse.standard_deviation = 1
    /\ condCompared[1] = MaxMse

\* C13: every model package the execution registered carries the execution's
\* ModelApprovalStatus, which is the value given at the start of the
\* execution or, when none was given, "PendingManualApproval"; the right
\* operand of the condition is the execution's MseThreshold, which is the
\* value given at the start or, when none was given, 6.
C13_ParametersOfTheExecution ==
    Pipeline =>
        /\ stepStatus["AbaloneRegisterModel"] = "Succeeded" <=> modelPackages # {}
        /\ \A p \in modelPackages :
              /\ p.ModelApprovalStatus = params.ModelApprovalStatus
              /\ "ModelApprovalStatus" \in DOMAIN overrides =>
                    p.ModelApprovalStatus = overrides["ModelApprovalStatus"]
              /\ "ModelApprovalStatus" \notin DOMAIN overrides =>
                    p.ModelApprovalStatus = "PendingManualApproval"
        /\ condCompared # <<>> =>
              /\ condCompared[2] = params.MseThreshold
              /\ "MseThreshold" \in DOMAIN overrides =>
                    condCompared[2] = overrides["MseThreshold"]
              /\ "MseThreshold" \notin DOMAIN overrides => condCompared[2] = 6

\* C13 witness: a package registered as Approved by an execution that gave
\* ModelApprovalStatus and left MseThreshold at its default.
C13_Witness ==
    /\ Pipeline /\ modelPackages # {}
    /\ DOMAIN overrides = {"ModelApprovalStatus"}
    /\ overrides["ModelApprovalStatus"] = "Approved"
    /\ condCompared[2] = 6

RegisterBranch == {"AbaloneRegisterModel", "AbaloneCreateModel", "AbaloneTransform"}

\* C14: AbaloneTransform never starts before AbaloneCreateModel has
\* succeeded; AbaloneRegisterModel and AbaloneCreateModel wait for nothing
\* inside the branch (each is runnable as soon as the condition is true,
\* whatever the state of the other); and the steps run after a true
\* condition are exactly AbaloneRegisterModel, AbaloneCreateModel and
\* AbaloneTransform.
C14_RegisterBranchOrder ==
    Pipeline =>
        /\ Started("AbaloneTransform") =>
              stepStatus["AbaloneCreateModel"] = "Succeeded" /\ createdModel
        /\ transformRan => createdModel
        /\ \A s \in {"AbaloneRegisterModel", "AbaloneCreateModel"} :
              /\ References(s) \cap RegisterBranch = {}
              /\ (execStatus = "Executing" /\ condOutcome = "True"
                    /\ stepStatus[s] = "NotStarted") => Runnable(s)
        /\ IfSteps = RegisterBranch
        /\ {s \in Steps : Started(s)} \subseteq
              TopSteps \cup (IF condOutcome = "True" THEN RegisterBranch
                             ELSE IF condOutcome = "False" THEN {"AbaloneMSEFail"}
                             ELSE {})
        /\ execStatus = "Succeeded" =>
              \A s \in RegisterBranch : stepStatus[s] = "Succeeded"

\* C14 witness: the transform runs on the created model while
\* AbaloneRegisterModel, named first in if_steps, has not started.
C14_Witness ==
    /\ Pipeline /\ stepStatus["AbaloneTransform"] = "Executing"
    /\ stepStatus["AbaloneCreateModel"] = "Succeeded"
    /\ stepStatus["AbaloneRegisterModel"] = "NotStarted"

\* C16: the training job reads exactly the "train" and "validation" outputs
\* of AbaloneProcess, the evaluation step exactly the model artifact of
\* AbaloneTrain and the "test" output of AbaloneProcess, all produced earlier
\* in the same execution; no step but AbaloneEval reads the test split, and
\* the trained model derives from the train and validation splits only.
C16_TestSplitOnlyInEvaluation ==
    Pipeline =>
        /\ Started("AbaloneTrain") =>
              consumed["AbaloneTrain"] =
                  {<<"AbaloneProcess", "train">>, <<"AbaloneProcess", "validation">>}
        /\ Started("AbaloneEval") =>
              consumed["AbaloneEval"] =
                  {<<"AbaloneTrain", "ModelArtifacts">>, <<"AbaloneProcess", "test">>}
        /\ \A s \in Steps :
              /\ consumed[s] \subseteq DOMAIN artifacts
              /\ s # "AbaloneEval" => <<"AbaloneProcess", "test">> \notin consumed[s]
              /\ ~Started(s) => consumed[s] = {}
        /\ <<"AbaloneTrain", "ModelArtifacts">> \in DOMAIN artifacts =>
              artifacts[<<"AbaloneTrain", "ModelArtifacts">>] = {"train", "validation"}
        /\ <<"AbaloneCreateModel", "ModelName">> \in DOMAIN artifacts =>
              "test" \notin artifacts[<<"AbaloneCreateModel", "ModelName">>]

\* C16 witness: the evaluation output derives from all three splits while
\* the model it evaluated derives from two.
C16_Witness ==
    /\ Pipeline /\ stepStatus["AbaloneEval"] = "Succeeded"
    /\ artifacts[<<"AbaloneEval", "evaluation">>] = {"train", "validation", "test"}
    /\ artifacts[<<"AbaloneTrain", "ModelArtifacts">>] = {"train", "validation"}

Creates == {"create_model", "create_endpoint_config", "create_endpoint"}

\* the run began with the three target resources in place, as an earlier
\* run of the creation cells leaves them (the endpoint not being deleted)
CreatedBefore ==
    /\ Serverless
    /\ model_name \in atStart.models
    /\ endpoint_config_name \in atStart.endpointConfigs
    /\ endpoint_name \in DOMAIN atStart.endpoints
    /\ atStart.endpoints[endpoint_name] # "Deleting"

\* C17: when the creation cells run while the model, the endpoint
\* configuration and the endpoint of an earlier run still exist, no create
\* call is reached or issued, no call of the cells can be rejected by the
\* platform (describe_endpoint always finds the endpoint), and until the
\* teardown the sets of models, endpoint configurations and endpoints are
\* the ones the run began with.
C17_CreationCellsIdempotent ==
    CreatedBefore =>
        /\ pc \notin Creates
        /\ raised \notin Creates
        /\ Range(log) \cap Creates = {}
        /\ pc \in {"describe_endpoint", "describe_endpoint_loop"} =>
              endpoint_name \in DOMAIN endpoints
        /\ Range(log) \cap {"delete_model", "delete_endpoint_config",
                            "delete_endpoint"} = {} =>
              /\ models = atStart.models
              /\ endpointConfigs = atStart.endpointConfigs
              /\ DOMAIN endpoints = DOMAIN atStart.endpoints

\* C17 witness: the three cells ran to their end over the existing
\* resources: every list call was issued and the loop was left.
C17_Witness ==
    /\ CreatedBefore /\ pc = "read_csv"
    /\ {"list_models", "list_endpoint_configs", "list_endpoints",
        "describe_endpoint"} \subseteq Range(log)
    /\ Count(log, "describe_endpoint") >= 2

DeleteRank(c) ==
    CASE c = "delete_model" -> 1
      [] c = "delete_endpoint_config" -> 2
      [] c = "delete_endpoint" -> 3

\* C18: the teardown cell issues delete_model, delete_endpoint_config and
\* delete_endpoint in that order and each only after the one before it
\* returned; when delete_model raises, neither of the other two is issued
\* and the endpoint stays InService with its configuration; when
\* delete_endpoint_config raises, delete_endpoint is not issued and the
\* endpoint stays InService.
C18_TeardownStopsAtFirstError ==
    Serverless =>
        /\ \A i, j \in 1..Len(log) :
              (i < j /\ log[i] \in Deletes /\ log[j] \in Deletes) =>
                  DeleteRank(log[i]) < DeleteRank(log[j])
        /\ "delete_endpoint_config" \in Range(log) =>
              "delete_model" \in Range(log) /\ raised # "delete_model"
        /\ "delete_endpoint" \in Range(log) =>
              /\ "delete_endpoint_config" \in Range(log)
              /\ raised # "delete_endpoint_config"
        /\ raised = "delete_model" =>
              /\ Range(log) \cap {"delete_endpoint_config", "delete_endpoint"} = {}
              /\ endpoint_name \in DOMAIN endpoints
              /\ endpoints[endpoint_name] = "InService"
              /\ endpointConfigs = atStart.endpointConfigs
                    \cup (IF "create_endpoint_config" \in Range(log)
                          THEN {endpoint_config_name} ELSE {})
        /\ raised = "delete_endpoint_config" =>
              /\ "delete_endpoint" \notin Range(log)
              /\ endpoint_name \in DOMAIN endpoints
              /\ endpoints[endpoint_name] = "InService"

\* C18 witness: delete_model raised because the model does not exist, and
\* the endpoint and its configuration are still there.
C18_Witness ==
    /\ Serverless /\ raised = "delete_model"
    /\ model_name \notin models
    /\ endpoint_config_name \in endpointConfigs
    /\ endpoints[endpoint_name] = "InService"

\* line i of test.csv without its "fraud" cell
FeatureTexts(i) == <<ToString(TestRow(i)[2]), ToString(TestRow(i)[3])>>

\* C19: the request body is exactly the first five data lines of test.csv,
\* each without the "fraud" cell, with no header line and no index cell;
\* prediction_df has exactly five rows, and its i-th row pairs the
\* endpoint's answer to the i-th line sent with the "fraud" label of the
\* i-th line of test.csv.
C19_RequestAndPredictions ==
    Serverless =>
        /\ payload # <<>> =>
              /\ Len(payload) = 5
              /\ \A i \in 1..5 : payload[i] = FeatureTexts(i)
        /\ "invoke_endpoint" \in Range(log) => payload # <<>>
        /\ prediction_df # <<>> =>
              /\ Len(prediction_df) = 5
              /\ \A i \in 1..5 :
                    /\ prediction_df[i].Prediction = <<Score(FeatureTexts(i))>>
                    /\ prediction_df[i].Label = TestRow(i)[1]
        /\ (pc \in {"prose_cell", "done"} \cup Deletes
               \/ raised \in {"SyntaxError"} \cup Deletes) => prediction_df # <<>>
        /\ raised # "ValueError"

\* C19 witness: the cell ran to its end on a test file of more than five
\* lines, and the labels paired are not all the same.
C19_Witness ==
    /\ Serverless /\ prediction_df # <<>>
    /\ Len(test_df.rows) > 5
    /\ prediction_df[1].Label # prediction_df[2].Label

\* the rows of the input data set as preprocessing.py must write them: the
\* label of a row, then the transformed features of that row
Labels == Array([i \in 1..Len(dataset) |-> ParseFloat(dataset[i][Len(InputColumns)])[1]])
Features == FitTransform(Drop(ReadInput(dataset), "rings"))
Lines ==
    LET labels == Labels
        features == Features
    IN Array([i \in 1..Len(dataset) |->
                 LET row == <<labels[i]>> \o features[i]
                 IN Array([k \in 1..Len(row) |-> ToString(row[k])])])
Written == Jobs /\ files # <<>>

\* the places (file, line number) that hold `line`
Places(line) ==
    {p \in (DOMAIN files) \X (1..Len(dataset)) :
        p[2] <= Len(files[p[1]]) /\ files[p[1]][p[2]] = line}

\* C11: for an input of n rows, train.csv, validation.csv and test.csv hold
\* int(0.7*n), int(0.85*n) - int(0.7*n) and n - int(0.85*n) lines, n lines
\* in all, and every input row is written to exactly one place of exactly
\* one of the three files.
C11_SplitIsPartition ==
    Written =>
        LET n == Len(dataset)
        IN /\ Len(files["train.csv"]) = (7 * n) \div 10
           /\ Len(files["validation.csv"]) = (85 * n) \div 100 - (7 * n) \div 10
           /\ Len(files["test.csv"]) = n - (85 * n) \div 100
           /\ Len(files["train.csv"]) + Len(files["validation.csv"])
                 + Len(files["test.csv"]) = n
           /\ \E lines \in {Lines} :
                 \A i \in 1..n : Cardinality(Places(lines[i])) = 1

\* C11 witness: a data set of MaxRows rows was split into three non-empty
\* files, and the shuffle had moved the last input row to the front.
C11_Witness ==
    /\ Written /\ Len(dataset) = MaxRows
    /\ \A f \in DOMAIN files : files[f] # <<>>
    /\ files["train.csv"][1] = Lines[MaxRows]

\* C15: every row of X, before and after the shuffle, is the label of some
\* input row followed by the transformed features of that same row; every
\* line of the three files is such a row in text, label first, and there
\* are as many lines as input rows (no header line); evaluation.py takes
\* the first cell of each line of test.csv as the label and the remaining
\* cells, in order, as the features of the same row.
C15_LabelStaysWithFeatures ==
    Jobs => \E labels \in {Labels}, features \in {Features}, lines \in {Lines} :
        /\ \A j \in 1..Len(X) :
              \E i \in 1..Len(dataset) : X[j] = <<labels[i]>> \o features[i]
        /\ Written =>
              /\ \A f \in DOMAIN files : \A j \in 1..Len(files[f]) :
                    \E i \in 1..Len(dataset) :
                        /\ files[f][j] = lines[i]
                        /\ files[f][j][1] = ToString(labels[i])
              /\ Len(files["train.csv"]) + Len(files["validation.csv"])
                    + Len(files["test.csv"]) = Len(dataset)
        /\ pc = "done" =>
              /\ Len(y_test) = Len(files["test.csv"])
              /\ Len(X_test) = Len(files["test.csv"])
              /\ \A j \in 1..Len(y_test) :
                    \E i \in 1..Len(dataset) :
                        /\ files["test.csv"][j] = lines[i]
                        /\ y_test[j] = labels[i]
                        /\ X_test[j] = features[i]

\* C15 witness: evaluation.py read, as the first row of test.csv, the input
\* row whose length was missing and had to be imputed.
C15_Witness ==
    /\ Jobs /\ pc = "done" /\ Len(dataset) >= 4
    /\ files["test.csv"][1] = Lines[4]
    /\ y_test[1] = Labels[4]
    /\ X_test[1] = Features[4]

====
